---- MODULE Spec2Model ----
(***************************************************************************)
(* Model of src/utils/array-to-tree.ts: the path predicates isChild and    *)
(* isDirectChild, arrayToTree (the tree builder) and addFilesToTree (the   *)
(* manifest merger).                                                       *)
(*                                                                         *)
(* A string is a sequence of tokens; a token is one character ("a", "/")   *)
(* or an opaque piece of text (".exe", "app-").  Objects live in a heap:   *)
(* `nodes` holds the FileFolderTree objects and `arrays` the               *)
(* __ELECTRON_WIX_MSI_FILES__ / __ELECTRON_WIX_MSI_REGISTRY__ arrays, so   *)
(* that sharing between the tree given to addFilesToTree and the tree it   *)
(* returns is visible.                                                     *)
(***************************************************************************)
EXTENDS Integers, Sequences, FiniteSets, TLC

VARIABLES
  pc,          \* "init" -> "built" (arrayToTree returned) -> "merged"
  input,       \* arrayToTree's `input`
  root,        \* arrayToTree's `root`
  appVersion,  \* arrayToTree's `appVersion` ("" when not given)
  tree,        \* reference to the object arrayToTree returned
  files,       \* addFilesToTree's `files`
  autoUpdate,  \* addFilesToTree's `autoUpdate`
  output,      \* reference to the object addFilesToTree returned
  result,      \* "none", "ok" (returned) or "TypeError" (thrown)
  nodes,       \* heap: object reference -> FileFolderTree object
  arrays       \* heap: array reference -> sequence of records

vars == <<pc, input, root, appVersion, tree, files, autoUpdate, output,
          result, nodes, arrays>>

(* Bounds and input universes *)

MaxPaths == 3

MaxFiles == 2

\* the path separator of ./separator
separator == "/"

\* an absent or empty appVersion: `if (appVersion)` is false for both
NoVersion == ""

\* "ab" and "ab/a" share a character prefix with the root "a" only
DirUniverse ==
  { <<"a", "b">>,
    <<"a", "b", "/", "a">>,
    <<"a", "/", "a">>,
    <<"a", "/", "b">>,
    <<"a", "/", "a", "/", "b">> }

RootUniverse == { <<"a">>, <<"a", "/", "a">> }

FileUniverse ==
  { <<"a", "/", "a", "/", "f">>,
    <<"a", "/", "b", "/", "f">> }

VersionUniverse == { NoVersion, "1" }

\* the arguments addFilesToTree is called with besides files and autoUpdate
executableName == <<"App">>

stubExecutablePath == <<"a", "/", "App", ".exe">>

mergeVersion == "1"

SeqsUpTo(S, n) == UNION { [1..k -> S] : k \in 0..n }

(* Strings *)

startsWith(s, prefix) ==
  /\ Len(prefix) <= Len(s)
  /\ SubSeq(s, 1, Len(prefix)) = prefix

\* String.prototype.split: the pieces between separators, empty ones kept
RECURSIVE split(_, _)
split(s, sep) ==
  IF \E i \in 1..Len(s) : s[i] = sep
    THEN LET i == CHOOSE j \in 1..Len(s) :
                    s[j] = sep /\ \A k \in 1..(j - 1) : s[k] # sep
         IN <<SubSeq(s, 1, i - 1)>> \o split(SubSeq(s, i + 1, Len(s)), sep)
    ELSE <<s>>

RECURSIVE join(_, _)
join(segments, sep) ==
  IF Len(segments) = 0 THEN <<>>
  ELSE IF Len(segments) = 1 THEN segments[1]
  ELSE segments[1] \o <<sep>> \o join(Tail(segments), sep)

\* path.basename: trailing separators are dropped, then the last segment
RECURSIVE basename(_)
basename(p) ==
  IF Len(p) > 0 /\ p[Len(p)] = separator
    THEN basename(SubSeq(p, 1, Len(p) - 1))
    ELSE LET segments == split(p, separator) IN segments[Len(segments)]

(* Path predicates *)

\* isChild without the separator after the parent
isChildNoBoundary(parent, possibleChild) ==
  /\ startsWith(possibleChild, parent)
  /\ parent # possibleChild

isChild(parent, possibleChild) ==
  /\ startsWith(possibleChild, parent \o <<separator>>)
  /\ parent # possibleChild

\* isDirectChild without the comparison of the segment counts
isDirectChildAnyDepth(parent, possibleChild) ==
  IF ~isChild(parent, possibleChild) THEN FALSE ELSE TRUE

isDirectChild(parent, possibleChild) ==
  IF ~isChild(parent, possibleChild) THEN FALSE
  ELSE LET parentSplit == split(parent, separator)
           childSplit == split(possibleChild, separator)
       IN Len(parentSplit) = Len(childSplit) - 1

(* arrayToTree, as the value it builds *)

\* the key and directory name of the version node
versionKey(v) == <<"app-", v>>

\* an object literal with the four metadata keys, plus its child keys
newNode(path, name, kids) ==
  [files |-> <<>>, registry |-> <<>>, path |-> path, name |-> name,
   kids |-> kids]

\* the version node created, but entryPoint left at the root object
rootWithoutEntryPoint(rt, v, sub) ==
  IF v # NoVersion
    THEN newNode(rt, basename(rt),
                 (versionKey(v) :> newNode(rt, versionKey(v), <<>>)) @@ sub)
    ELSE newNode(rt, basename(rt), sub)

\* lines 92-108: the root object, with the version node as entry point
\* when appVersion is given; `sub` is what is attached to the entry point
rootWithEntryPoint(rt, v, sub) ==
  IF v # NoVersion
    THEN newNode(rt, basename(rt),
                 versionKey(v) :> newNode(rt, versionKey(v), sub))
    ELSE newNode(rt, basename(rt), sub)

\* the directChild whose subtree ends up under key k: forEach assigns in
\* order, so the last one with that basename stays
lastWithKey(directChildren, k) ==
  LET i == CHOOSE j \in DOMAIN directChildren :
             /\ basename(directChildren[j]) = k
             /\ \A m \in DOMAIN directChildren :
                  basename(directChildren[m]) = k => m <= j
  IN directChildren[i]

\* line 110
childrenOf(in, rt) == SelectSeq(in, LAMBDA e : isChild(rt, e))

\* every descendant taken for a direct child
directChildrenAll(children, rt) == children

\* line 111
directChildrenOf(children, rt) ==
  SelectSeq(children, LAMBDA e : isDirectChild(rt, e))

RECURSIVE arrayToTree(_, _, _)
arrayToTree(in, rt, v) ==
  LET children == childrenOf(in, rt)
      directChildren == directChildrenOf(children, rt)
      keys == { basename(directChildren[i]) : i \in DOMAIN directChildren }
      sub == [k \in keys |->
                arrayToTree(children, lastWithKey(directChildren, k),
                            NoVersion)]
  IN rootWithEntryPoint(rt, v, sub)

(* The heap *)

Ref(owner, addr) == [o |-> owner, a |-> addr]

ArrRef(owner, addr, field) == [o |-> owner, a |-> addr, f |-> field]

Null == Ref("null", <<>>)

\* the key chains leading to the objects of a tree value
RECURSIVE Addrs(_)
Addrs(t) ==
  {<<>>} \cup UNION { { <<k>> \o a : a \in Addrs(t.kids[k]) } :
                      k \in DOMAIN t.kids }

RECURSIVE At(_, _)
At(t, addr) == IF addr = <<>> THEN t ELSE At(t.kids[Head(addr)], Tail(addr))

\* every object literal evaluated by arrayToTree is a fresh object
AllocNodes(owner, t) ==
  [r \in { Ref(owner, a) : a \in Addrs(t) } |->
     LET n == At(t, r.a)
     IN [path |-> n.path, name |-> n.name,
         files |-> ArrRef(owner, r.a, "files"),
         registry |-> ArrRef(owner, r.a, "registry"),
         kids |-> [k \in DOMAIN n.kids |-> Ref(owner, r.a \o <<k>>)]]]

AllocArrays(owner, t) ==
  [r \in { ArrRef(owner, a, f) : a \in Addrs(t), f \in {"files", "registry"} } |->
     IF r.f = "files" THEN At(t, r.a).files ELSE At(t, r.a).registry]

\* the objects reachable from r
RECURSIVE Reach(_, _)
Reach(ns, r) ==
  {r} \cup UNION { Reach(ns, ns[r].kids[k]) : k \in DOMAIN ns[r].kids }

Init ==
  /\ pc = "init"
  /\ input = <<>>
  /\ root = <<>>
  /\ appVersion = NoVersion
  /\ tree = Null
  /\ files = <<>>
  /\ autoUpdate = FALSE
  /\ output = Null
  /\ result = "none"
  /\ nodes = [r \in {} |-> 0]
  /\ arrays = [r \in {} |-> 0]

Build ==
  /\ pc = "init"
  /\ \E in \in SeqsUpTo(DirUniverse, MaxPaths), rt \in RootUniverse,
        v \in VersionUniverse :
       LET t == arrayToTree(in, rt, v)
       IN /\ input' = in
          /\ root' = rt
          /\ appVersion' = v
          /\ tree' = Ref("t", <<>>)
          /\ nodes' = AllocNodes("t", t)
          /\ arrays' = AllocArrays("t", t)
  /\ pc' = "built"
  /\ UNCHANGED <<files, autoUpdate, output, result>>

(* addFilesToTree *)

\* createMsiVersionInfoFile(appVersion) of ./version-util: the path of the
\* generated .installInfo.json
createMsiVersionInfoFile(v) == <<"tmp-", v, "/", ".installInfo.json">>

\* path.join(__dirname, '../../vendor/MsiAwareSquirrel_1.9.1.exe')
updaterPath == <<"vendor", "/", "MsiAwareSquirrel_1.9.1.exe">>

stubRecord(exe, stub) == [name |-> exe \o <<".exe">>, path |-> stub]

installInfoRecord(v) ==
  [name |-> <<".installInfo.json">>, path |-> createMsiVersionInfoFile(v)]

updateRecord == [name |-> <<"Update.exe">>, path |-> updaterPath]

registryInstallPath ==
  [id |-> "RegistryInstallPath", root |-> "HKLM", name |-> "InstallPath",
   key |-> "SOFTWARE\\{{Manufacturer}}\\{{ApplicationName}}",
   type |-> "string", value |-> "[APPLICATIONROOTDIRECTORY]"]

\* lines 168-190: what is pushed to the root's __ELECTRON_WIX_MSI_FILES__
rootFilesAlways(exe, stub, au, v) ==
  <<stubRecord(exe, stub), installInfoRecord(v), updateRecord>>

rootFiles(exe, stub, au, v) ==
  <<stubRecord(exe, stub), installInfoRecord(v)>>
    \o (IF au THEN <<updateRecord>> ELSE <<>>)

\* Array.prototype.push on the array behind reference a
push(as, a, records) == [as EXCEPT ![a] = @ \o records]

\* `const output = tree`: no copy at all
cloneDeepAlias(ns, as, r) ==
  [root |-> r,
   nodes |-> [x \in Reach(ns, r) |-> ns[x]],
   arrays |-> [y \in UNION { {ns[x].files, ns[x].registry} : x \in Reach(ns, r) }
                 |-> as[y]]]

\* lodash cloneDeep: a fresh copy of every object and array reachable from r
cloneDeep(ns, as, r) ==
  LET old == Reach(ns, r)
      copy(x) == Ref("o", x.a)
      copyArr(y) == ArrRef("o", y.a, y.f)
      oldArrs == UNION { {ns[x].files, ns[x].registry} : x \in old }
  IN [root |-> copy(r),
      nodes |-> [c \in { copy(x) : x \in old } |->
                   LET x == CHOOSE z \in old : copy(z) = c
                   IN [path |-> ns[x].path, name |-> ns[x].name,
                       files |-> copyArr(ns[x].files),
                       registry |-> copyArr(ns[x].registry),
                       kids |-> [k \in DOMAIN ns[x].kids |-> copy(ns[x].kids[k])]]],
      arrays |-> [c \in { copyArr(y) : y \in oldArrs } |->
                    as[CHOOSE z \in oldArrs : copyArr(z) = c]]]

\* a walk that gives up at the first step without a matching child
RECURSIVE walkDrop(_, _, _, _)
walkDrop(ns, target, steps, i) ==
  IF i > Len(steps) THEN <<>>
  ELSE IF steps[i] \in DOMAIN ns[target].kids /\ i < Len(steps)
    THEN walkDrop(ns, ns[target].kids[steps[i]], steps, i + 1)
  ELSE IF i = Len(steps) THEN <<target>>
  ELSE <<>>

\* lines 197-206, from step i on: the objects whose files array the file is
\* pushed to, in order
RECURSIVE walk(_, _, _, _)
walk(ns, target, steps, i) ==
  IF i > Len(steps) THEN <<>>
  ELSE IF steps[i] \in DOMAIN ns[target].kids /\ i < Len(steps)
    THEN walk(ns, ns[target].kids[steps[i]], steps, i + 1)
  ELSE IF i = Len(steps)
    THEN <<target>> \o walk(ns, target, steps, i + 1)
  ELSE walk(ns, target, steps, i + 1)

RECURSIVE pushEach(_, _, _, _)
pushEach(as, ns, targets, file) ==
  IF targets = <<>> THEN as
  ELSE pushEach(push(as, ns[Head(targets)].files, <<file>>), ns,
                Tail(targets), file)

\* lines 192-207, from the i-th element of files on
RECURSIVE addFiles(_, _, _, _, _)
addFiles(ns, as, entry, fs, i) ==
  IF i > Len(fs) THEN as
  ELSE LET filepath == fs[i]
           file == [name |-> basename(filepath), path |-> filepath]
           walkingSteps == split(filepath, separator)
       IN addFiles(ns,
                   pushEach(as, ns, walk(ns, entry, walkingSteps, 1), file),
                   entry, fs, i + 1)

\* the whole call; result "TypeError" when output[`app-${appVersion}`] is
\* undefined and a file is walked (target[step] on undefined throws)
addFilesToTree(ns, as, t, fs, exe, stub, au, v) ==
  LET cl == cloneDeep(ns, as, t)
      ns1 == cl.nodes @@ ns
      as1 == cl.arrays @@ as
      out == cl.root
      as2 == push(as1, ns1[out].files, rootFiles(exe, stub, au, v))
      as3 == push(as2, ns1[out].registry, <<registryInstallPath>>)
      hasEntry == versionKey(v) \in DOMAIN ns1[out].kids
  IN IF fs # <<>> /\ ~hasEntry
       THEN [result |-> "TypeError", output |-> Null,
             nodes |-> ns1, arrays |-> as3]
       ELSE [result |-> "ok", output |-> out, nodes |-> ns1,
             arrays |-> IF hasEntry
                          THEN addFiles(ns1, as3, ns1[out].kids[versionKey(v)],
                                        fs, 1)
                          ELSE as3]

Merge ==
  /\ pc = "built"
  /\ \E fs \in SeqsUpTo(FileUniverse, MaxFiles), au \in BOOLEAN :
       LET m == addFilesToTree(nodes, arrays, tree, fs, executableName,
                               stubExecutablePath, au, mergeVersion)
       IN /\ files' = fs
          /\ autoUpdate' = au
          /\ output' = m.output
          /\ result' = m.result
          /\ nodes' = m.nodes
          /\ arrays' = m.arrays
  /\ pc' = "merged"
  /\ UNCHANGED <<input, root, appVersion, tree>>

Next == Build \/ Merge

Spec == Init /\ [][Next]_vars

(* Views of the state used by the properties *)

Range(s) == { s[i] : i \in DOMAIN s }

Occurrences(s, x) == Cardinality({ i \in DOMAIN s : s[i] = x })

\* the objects of the tree arrayToTree returned, and of the tree
\* addFilesToTree returned
TreeRefs == IF pc = "init" THEN {} ELSE Reach(nodes, tree)

OutRefs == IF result = "ok" THEN Reach(nodes, output) ELSE {}

FilesOf(r) == arrays[nodes[r].files]

RegistryOf(r) == arrays[nodes[r].registry]

\* how many records of r's files have path p
CountPath(r, p) ==
  Cardinality({ i \in DOMAIN FilesOf(r) : FilesOf(r)[i].path = p })

\* how many records of r's files equal rec
CountRecord(r, rec) ==
  Cardinality({ i \in DOMAIN FilesOf(r) : FilesOf(r)[i] = rec })

\* the path of the directory holding p
dirname(p) ==
  LET segments == split(p, separator)
  IN join(SubSeq(segments, 1, Len(segments) - 1), separator)

\* the directories strictly between rt and its descendant p
AncestorsBelow(rt, p) ==
  LET segments == split(p, separator)
  IN { join(SubSeq(segments, 1, k), separator) :
         k \in (Len(split(rt, separator)) + 1)..(Len(segments) - 1) }

\* every object below r (r included) with the names met from r down to it
RECURSIVE NameChains(_, _, _)
NameChains(ns, r, prefix) ==
  LET names == prefix \o <<ns[r].name>>
  IN {[ref |-> r, names |-> names]}
       \cup UNION { NameChains(ns, ns[r].kids[k], names) : k \in DOMAIN ns[r].kids }

\* the version node of the tree behind r, if it has one
VersionNodes(r) ==
  { nodes[r].kids[k] : k \in DOMAIN nodes[r].kids \cap {versionKey(mergeVersion)} }

\* the tree was built with the version label addFilesToTree is called with
Versioned == appVersion = mergeVersion

(* C1 *)

\* C1 as claimed: for every element p of the input of an unversioned build
\* the tree has a node whose path is p, and the names from the root node
\* down to it, joined by the separator, give p.
C1_RoundTripEveryPath ==
  (pc # "init" /\ appVersion = NoVersion) =>
    \A i \in DOMAIN input :
      \E c \in NameChains(nodes, tree, <<>>) :
        /\ nodes[c.ref].path = input[i]
        /\ join(c.names, separator) = input[i]

\* C1 as amended: for every element p of the input that is root itself, or
\* a descendant of root whose ancestors below root are all in the input
\* too, the tree has a node whose path is p, and root followed by the names
\* of the nodes below the root node on the way to it, joined by the
\* separator, gives p.
C1_RoundTripResolvedChain ==
  (pc # "init" /\ appVersion = NoVersion) =>
    \A i \in DOMAIN input :
      LET p == input[i]
      IN (p = root \/ (isChild(root, p) /\ AncestorsBelow(root, p) \subseteq Range(input)))
           => \E c \in NameChains(nodes, tree, <<>>) :
                /\ nodes[c.ref].path = p
                /\ join(<<root>> \o Tail(c.names), separator) = p

C1_Witness ==
  /\ pc = "built"
  /\ appVersion = NoVersion
  /\ root = <<"a">>
  /\ <<"a", "/", "a">> \in Range(input)
  /\ <<"a", "/", "a", "/", "b">> \in Range(input)
  /\ \E r \in TreeRefs : nodes[r].path = <<"a", "/", "a", "/", "b">>

(* C2 *)

\* the node of the version subtree that stands for the directory of p
Owner(p) ==
  IF dirname(p) = root THEN VersionNodes(output)
  ELSE UNION { { r \in Reach(nodes, vn) \ {vn} : nodes[r].path = dirname(p) } :
               vn \in VersionNodes(output) }

\* C2 as claimed: a file whose directory is root or the path of a node of
\* the tree gets one record {basename, path} per occurrence in `files`, in
\* the node of the version subtree with that path and in no other node.
C2_FileRouting ==
  (pc = "merged" /\ result = "ok" /\ Versioned) =>
    \A p \in Range(files) :
      Owner(p) # {} =>
        \A r \in OutRefs :
          CountRecord(r, [name |-> basename(p), path |-> p])
            = IF r \in Owner(p) THEN Occurrences(files, p) ELSE 0

(* C3 *)

\* the directory of p is neither root nor the path of a node of the tree
MissingDirectory(p) ==
  /\ dirname(p) # root
  /\ ~\E r \in TreeRefs : nodes[r].path = dirname(p)

\* C3 as claimed: when the directory of some file was never in the build
\* input, addFilesToTree ends in a MissingDirectoryNode error.
C3_MissingDirectoryIsAnError ==
  (pc = "merged" /\ Versioned /\ \E p \in Range(files) : MissingDirectory(p))
    => result = "MissingDirectoryNode"

(* C4 *)

ArraysOf(ns, refs) == UNION { {ns[x].files, ns[x].registry} : x \in refs }

\* C4: when addFilesToTree returns, every object and array of the tree it
\* was given is what it was before the call, and the tree it returns shares
\* no object and no files or registry array with the tree it was given.
C4_InputUnchangedAndUnshared ==
  [][ (pc = "built" /\ result' = "ok") =>
        /\ tree' = tree
        /\ \A x \in Reach(nodes, tree) :
             /\ nodes'[x] = nodes[x]
             /\ arrays'[nodes[x].files] = arrays[nodes[x].files]
             /\ arrays'[nodes[x].registry] = arrays[nodes[x].registry]
        /\ Reach(nodes', output') \cap Reach(nodes', tree') = {}
        /\ ArraysOf(nodes', Reach(nodes', output'))
             \cap ArraysOf(nodes', Reach(nodes', tree')) = {}
    ]_vars

C4_Witness ==
  /\ pc = "merged"
  /\ result = "ok"
  /\ Cardinality(TreeRefs) >= 4
  /\ \E r \in OutRefs \ {output} : FilesOf(r) # <<>>
  /\ \A r \in TreeRefs : FilesOf(r) = <<>> /\ RegistryOf(r) = <<>>

(* C5 *)

C6_VersionRootShape ==
  (pc # "init" /\ appVersion # NoVersion) =>
    LET vk == versionKey(appVersion)
    IN /\ DOMAIN nodes[tree].kids = {vk}
       /\ LET vn == nodes[tree].kids[vk]
          IN /\ nodes[vn].path = root
             /\ nodes[tree].path = root
             /\ nodes[vn].name = vk
             /\ FilesOf(vn) = <<>>
             /\ RegistryOf(vn) = <<>>
             /\ { nodes[nodes[vn].kids[k]].path : k \in DOMAIN nodes[vn].kids }
                  = { p \in Range(input) : isDirectChild(root, p) }
       /\ \A n \in TreeRefs \ {tree} :
            \A k \in DOMAIN nodes[n].kids :
              /\ k # vk
              /\ nodes[nodes[n].kids[k]].path # nodes[n].path

C6_Witness ==
  /\ pc = "built"
  /\ appVersion = "1"
  /\ \E vn \in VersionNodes(tree) :
       /\ Cardinality(DOMAIN nodes[vn].kids) = 2
       /\ \E k \in DOMAIN nodes[vn].kids : nodes[nodes[vn].kids[k]].kids # <<>>

(* C7 *)

\* the trees that have been returned so far
ReturnedTrees ==
  (IF pc = "init" THEN {} ELSE {tree}) \cup (IF result = "ok" THEN {output} ELSE {})

\* the version node of the tree behind r, as arrayToTree keyed it
BuiltVersionNodes(r) ==
  { nodes[r].kids[k] : k \in DOMAIN nodes[r].kids \cap {versionKey(appVersion)} }

\* the nodes of `refs`, other than n and `excluded`, whose path has n's path
\* as a direct child
Parents(refs, n, excluded) ==
  { m \in refs \ ({n} \cup excluded) : isDirectChild(nodes[m].path, nodes[n].path) }

\* C7 as claimed: in every returned tree each node other than the root has
\* a path that is a direct child of the path of exactly one other node.
C7_ParentUniqueEveryNode ==
  \A t \in ReturnedTrees :
    \A n \in Reach(nodes, t) \ {t} :
      Cardinality(Parents(Reach(nodes, t), n, {})) = 1

\* C7 as amended: in every returned tree each node other than the root and
\* the version node has a path that is a direct child of the path of exactly
\* one other node, the version node (whose path repeats the root's) not
\* counted.
C7_ParentUniqueBelowEntryPoint ==
  \A t \in ReturnedTrees :
    \A n \in Reach(nodes, t) \ ({t} \cup BuiltVersionNodes(t)) :
      Cardinality(Parents(Reach(nodes, t), n, BuiltVersionNodes(t))) = 1

C7_Witness ==
  /\ pc = "merged"
  /\ result = "ok"
  /\ Versioned
  /\ \E vn \in BuiltVersionNodes(output) :
       \E k \in DOMAIN nodes[vn].kids : nodes[nodes[vn].kids[k]].kids # <<>>

(* C8 *)

\* C8 as claimed: no node of a returned merge has two file records with the
\* same path.
C8_NoDuplicateFileRecords ==
  (pc = "merged" /\ result = "ok") =>
    \A r \in OutRefs :
      \A i, j \in DOMAIN FilesOf(r) :
        FilesOf(r)[i].path = FilesOf(r)[j].path => i = j

(* C9 *)

\* the tree behind r as a value
RECURSIVE TreeOf(_)
TreeOf(r) ==
  [files |-> FilesOf(r), registry |-> RegistryOf(r), path |-> nodes[r].path,
   name |-> nodes[r].name,
   kids |-> [k \in DOMAIN nodes[r].kids |-> TreeOf(nodes[r].kids[k])]]

Reverse(s) == [i \in 1..Len(s) |-> s[Len(s) + 1 - i]]

\* C9: in a tree built without version label, the child keys of every node
\* are the basenames of the input elements that are direct children of the
\* node's path, each child carrying that element as its path; reversing the
\* input or repeating its elements gives the same tree; and no node has a
\* path that is not root or root followed by the separator and more.
C9_ChildrenAreDirectChildren ==
  (pc = "built" /\ appVersion = NoVersion) =>
    /\ \A n \in TreeRefs :
         /\ DOMAIN nodes[n].kids
              = { basename(q) : q \in { p \in Range(input) : isDirectChild(nodes[n].path, p) } }
         /\ \A q \in Range(input) :
              isDirectChild(nodes[n].path, q)
                => nodes[nodes[n].kids[basename(q)]].path = q
    /\ TreeOf(tree) = arrayToTree(Reverse(input), root, NoVersion)
    /\ TreeOf(tree) = arrayToTree(input \o input, root, NoVersion)
    /\ (Range(input) \subseteq {root}) => nodes[tree].kids = <<>>
    /\ \A n \in TreeRefs \ {tree} :
         startsWith(nodes[n].path, root \o <<separator>>)

C9_Witness ==
  /\ pc = "built"
  /\ appVersion = NoVersion
  /\ root = <<"a">>
  /\ Len(input) = 3
  /\ Range(input) = { <<"a", "b", "/", "a">>, <<"a", "/", "b">> }
  /\ input[1] = input[3]
  /\ Cardinality(DOMAIN nodes[tree].kids) = 1

(* C10 *)

\* the walk of `steps` from `target` meets a non-final step, at or after
\* step i, for which the current node has no child
RECURSIVE hasUnresolvedStep(_, _, _, _)
hasUnresolvedStep(ns, target, steps, i) ==
  IF i >= Len(steps) THEN FALSE
  ELSE IF steps[i] \in DOMAIN ns[target].kids
    THEN hasUnresolvedStep(ns, ns[target].kids[steps[i]], steps, i + 1)
  ELSE TRUE

Unresolved(p) ==
  \E vn \in VersionNodes(output) :
    hasUnresolvedStep(nodes, vn, split(p, separator), 1)

\* the records with path p in the whole returned tree
RecordsOf(p) ==
  { <<r, i>> \in UNION { {r} \X DOMAIN FilesOf(r) : r \in OutRefs } :
      FilesOf(r)[i].path = p }

\* the key chains and paths of the tree behind r
Shape(r) ==
  { <<c.names, nodes[c.ref].path>> : c \in NameChains(nodes, r, <<>>) }

\* C10 as claimed: a file whose walk meets a non-final step without a
\* matching child has no record in any node of the returned tree.
C10_UnresolvedStepDropsFile ==
  (pc = "merged" /\ result = "ok" /\ Versioned) =>
    \A p \in Range(files) :
      Unresolved(p) => \A r \in OutRefs : CountPath(r, p) = 0

\* C10 as amended: when the walk of a file meets a non-final step without a
\* matching child, no node is created and no error is reported; the step is
\* skipped and the file is still recorded, once per occurrence in `files`,
\* in the node the walk stands at on the final step.
C10_UnresolvedStepSkipped ==
  (pc = "merged" /\ Versioned) =>
    /\ result = "ok"
    /\ Shape(output) = Shape(tree)
    /\ \A p \in Range(files) :
         Unresolved(p) => Cardinality(RecordsOf(p)) = Occurrences(files, p)

C10_Witness ==
  /\ pc = "merged"
  /\ result = "ok"
  /\ Versioned
  /\ \E p \in Range(files) :
       /\ MissingDirectory(p)
       /\ Unresolved(p)
       /\ \E r \in OutRefs : CountPath(r, p) = 1

====
